---- MODULE Spec2Model ----
(***************************************************************************)
(* Test-run orchestration of poly-micro-backend (app/services/             *)
(* test_service.py): the run metadata store, the log sink, the container   *)
(* runtime and the coroutines of TestService.  Every coroutine is cut at    *)
(* its await points; the code between two awaits is one atomic step.        *)
(***************************************************************************)
EXTENDS Integers, Sequences, FiniteSets, Bags, TLC

----------------------------------------------------------------------------
(* Bounds *)

MaxRuns == 2
MaxCalls == 3
MaxClock == 1
MaxCases == 1
TicksPerSec == 2

----------------------------------------------------------------------------
(* Domains *)

RunIds == 1..MaxRuns
Slots == {1, 2}
ProjectIds == {"P1", "P2"}
ServiceIds == {"S1", "S2"}

\* the services that exist, each with its project
Targets == {<<"P1", "S1">>, <<"P2", "S2">>}

\* app/schemas/test.py TestStatus
TestStatus == {"pending", "running", "passed", "failed", "error", "skipped"}
Terminal == {"passed", "failed", "error"}

NoTime == -1
NoDuration == -1
NoRun == 0

\* outcomes pytest reports for a test case
Outcomes == {"passed", "failed", "skipped", "error"}

\* sequences over S of length at most n
RECURSIVE SeqsUpTo(_, _)
SeqsUpTo(S, n) ==
    IF n = 0 THEN {<<>>}
    ELSE LET shorter == SeqsUpTo(S, n - 1)
         IN  shorter \cup {Append(q, x) : q \in {u \in shorter : Len(u) = n - 1}, x \in S}

Count(ts, o) == Cardinality({i \in 1..Len(ts) : ts[i] = o})

\* the summary pytest-json-report writes for the cases it ran
SummaryOf(ts) ==
    [total |-> Len(ts), passed |-> Count(ts, "passed"), failed |-> Count(ts, "failed"),
     error |-> Count(ts, "error"), skipped |-> Count(ts, "skipped")]

NoSummary == [total |-> -1, passed |-> -1, failed |-> -1, error |-> -1, skipped |-> -1]

\* the content of a report file: text that is not JSON, the JSON object {},
\* or a report with its summary and the tests array of per-case outcomes
Reports ==
    { [json |-> FALSE, summary |-> NoSummary, tests |-> <<>>],
      [json |-> TRUE, summary |-> NoSummary, tests |-> <<>>] } \cup
    { [json |-> TRUE, summary |-> SummaryOf(ts), tests |-> ts] :
        ts \in SeqsUpTo(Outcomes, MaxCases) }

NoReport == [json |-> FALSE, summary |-> NoSummary, tests |-> <<"absent">>]

----------------------------------------------------------------------------
(* Timestamps: datetime.isoformat() and its parse *)

\* IsoFormat with the fraction dropped, as strftime("%Y-%m-%d %H:%M:%S") does
IsoFormatSeconds(t) == <<t \div TicksPerSec>>

\* datetime.isoformat(): the microsecond part is omitted when it is zero
IsoFormat(t) ==
    IF t % TicksPerSec = 0 THEN <<t \div TicksPerSec>>
    ELSE <<t \div TicksPerSec, t % TicksPerSec>>

\* pydantic's datetime parse of the stored string
ParseIso(s) ==
    IF Len(s) = 1 THEN s[1] * TicksPerSec ELSE s[1] * TicksPerSec + s[2]

----------------------------------------------------------------------------
(* Node identifiers: strings are sequences of characters *)

MaxSegments == 3
MaxCatalog == 2

Sep == <<":", ":">>

\* str.split("::"): cut at the leftmost separator, then split the rest
RECURSIVE SplitOn(_)
SplitOn(str) ==
    LET cuts == {i \in 1..(Len(str) - 1) : SubSeq(str, i, i + 1) = Sep} IN
    IF cuts = {} THEN <<str>>
    ELSE LET i == CHOOSE c \in cuts : \A d \in cuts : c <= d
         IN  <<SubSeq(str, 1, i - 1)>> \o SplitOn(SubSeq(str, i + 2, Len(str)))

\* str.startswith(prefix)
StartsWith(str, prefix) ==
    Len(str) >= Len(prefix) /\ SubSeq(str, 1, Len(prefix)) = prefix

\* str.endswith(suffix)
EndsWith(str, suffix) ==
    Len(str) >= Len(suffix) /\ SubSeq(str, Len(str) - Len(suffix) + 1, Len(str)) = suffix

\* os.path.basename: what follows the last "/"
Basename(path) ==
    LET slashes == {i \in 1..Len(path) : path[i] = "/"} IN
    IF slashes = {} THEN path
    ELSE LET i == CHOOSE c \in slashes : \A d \in slashes : d <= c
         IN  SubSeq(path, i + 1, Len(path))

\* the module name: the basename without a ".py" extension
ModuleName(path) ==
    LET b == Basename(path) IN
    IF EndsWith(b, <<".", "p", "y">>) THEN SubSeq(b, 1, Len(b) - 3) ELSE b

\* file paths and the names that may follow them in a node identifier
Paths == { <<"d", "/", "t", ".", "p", "y">>, <<"t">> }

Segments ==
    { <<"T", "e", "s", "t", "A">>, <<"T", "e", "s", "t">>, <<"T", "e", "s">>,
      <<"t", "e", "s", "t", "_", "a">>, <<"a", ":", "b">> }

RECURSIVE JoinSep(_)
JoinSep(parts) ==
    IF Len(parts) = 1 THEN parts[1]
    ELSE parts[1] \o Sep \o JoinSep(Tail(parts))

\* the lines pytest --collect-only -q may print
NodeIds ==
    { JoinSep(<<path>> \o segs) : path \in Paths, segs \in SeqsUpTo(Segments, MaxSegments) }

\* the fields app/schemas/test_item.py TestItem declares, with their defaults
TestItemDefaults ==
    [id |-> "-", name |-> "-", type |-> "-", children |-> <<>>, projectId |-> "None",
     status |-> "None", version |-> "None", lastDeployed |-> "None"]

\* TestItemModel with every keyword kept as an attribute
TestItemKeepsAll(kwargs) == kwargs @@ TestItemDefaults

\* TestItem(**kwargs): pydantic keeps the declared fields and ignores the rest
TestItemModel(kwargs) ==
    [k \in DOMAIN TestItemDefaults |->
        IF k \in DOMAIN kwargs THEN kwargs[k] ELSE TestItemDefaults[k]]

\* _create_test_item_from_nodeid
CreateTestItemFromNodeid(nodeid, index) ==
    LET parts == SplitOn(nodeid)
        path == parts[1]
        test_type ==
            IF Len(parts) = 3 THEN "method"
            ELSE IF Len(parts) = 2
                 THEN IF StartsWith(parts[2], <<"T", "e", "s", "t">>)
                         /\ ~StartsWith(parts[2], <<"t", "e", "s", "t", "_">>)
                      THEN "class" ELSE "function"
                 ELSE "unknown"
        test_name ==
            IF Len(parts) = 3 THEN parts[3]
            ELSE IF Len(parts) = 2 THEN parts[2] ELSE nodeid
        class_name == IF Len(parts) = 3 THEN parts[2] ELSE "None"
    IN  TestItemModel(
            [id |-> <<"test", index>>, name |-> test_name, path |-> path,
             nodeid |-> nodeid, type |-> test_type, class_name |-> class_name,
             module_name |-> ModuleName(path)])

\* the record collect_service_tests synthesizes for catalog document i
CatalogTest(service, i) ==
    [id |-> <<"db-test", i>>, name |-> <<"Test", i>>, type |-> "Unit Test",
     status |-> "Unknown", path |-> <<"demo_tests", service, i>>,
     nodeid |-> <<service, i>>, module_name |-> service, class_name |-> "TestClass",
     function_name |-> i, line_number |-> 100 + i, parameters |-> <<>>,
     is_parameterized |-> FALSE, duration |-> "0.1s", result |-> "unknown",
     test_id |-> <<"db-test", i>>]

\* the frame of collect_service_tests: its arguments, the await it is
\* suspended at, the response it builds and what the outside answered
IdleDisc ==
    [pc |-> "idle", target |-> <<"-", "-">>, exists |-> FALSE, rc |-> "-",
     lines |-> <<>>, tests |-> <<>>, fs_tests |-> 0, metadata |-> {},
     tests_found |-> FALSE, queried |-> FALSE, db_tests |-> 0,
     dbfail |-> FALSE, outcome |-> "-"]

----------------------------------------------------------------------------
(* REST resources: domains *)

MaxDocs == 3

\* the collections behind /api/projects, /api/services, /api/logs, /api/metrics
Kinds == {"project", "service", "log", "metrics"}

\* an id in a request: the hex string of an ObjectId, or a string that is not
\* one, such as the numeric ids create_project and create_log assign
IdRefs == {<<"oid", n>> : n \in 1..MaxDocs} \cup {<<"num", 1>>}
\* the project_id a service or a CPU entry is created with: an ObjectId string
ProjectRefs == {<<"oid", 1>>}

NoRef == <<"-", 0>>

\* a document: its _id, its "id" field (0 when it has none) and, for a service
\* or a metrics entry, the project and service name it names
NoDoc == [oid |-> 0, id |-> 0, project_id |-> NoRef, name |-> "-"]

ServiceNames == {"svc"}

\* str(self) of a repository without __str__: its address differs or not from
\* one request to the next
Reprs == {"0x1"}

\* create requests that may be under way at once
MaxPending == 2

\* the answer to the last request: the operation, the status code, what a
\* successful delete removed, whether a get asks for what the request before it
\* removed, and for a create of a service whether its project_id matched no
\* project and whether a service document was stored
NoTarget == <<"-", NoRef>>

\* the frame of a cached read between its query and set_cache, and of an
\* invalidating write between its statement and clear_cache_pattern
IdleRead == [pc |-> "idle", key |-> <<>>, value |-> [t |-> "none"]]
IdleWrite == [pc |-> "idle", op |-> "-"]

NoResponse ==
    [op |-> "-", status |-> 0, target |-> NoTarget, after_delete |-> FALSE,
     unknown_project |-> FALSE, stored |-> FALSE, stale |-> FALSE]

----------------------------------------------------------------------------
(* State *)

VARIABLES
    store,      \* test_results/<project>/<run id>/metadata.json, by run id
    reports,    \* test_results/<project>/<run id>/report.json, by run id
    cfiles,     \* report files inside the containers, by <<container, path>>
    sink,       \* the log sink: the entries create_log stored, oldest first
    clock,      \* datetime.now()
    tasks,      \* the coroutines in flight, by slot
    last,       \* the call that completed last, with its result
    calls       \* number of calls started so far

VARIABLES
    disc,       \* the coroutine of collect_service_tests, with its result
    sfiles      \* service_tests/<project>/<service name>.json, by target

VARIABLES
    db,             \* the documents of the MongoDB collections, by entity kind
    cache,          \* the Redis keys with their values
    cache_enabled,  \* app.core.cache CACHE_ENABLED
    resp,           \* the response to the last request of the REST API
    noid,           \* number of ObjectIds generated so far
    creating        \* bag of <<kind, new id>>: the creates that have read the ids

VARIABLES
    analyses    \* test_results/<project>/<run id>/analysis.json, by run id

VARIABLES
    rfiles      \* tests-results/report-<service>-<timestamp>.json, by that pair

VARIABLES
    reading,    \* a cached repository read suspended at its query
    writing     \* an invalidating repository write suspended at its statement

\* the state of test execution, of test discovery and of the REST resources,
\* and the analysis records
runvars == <<store, reports, cfiles, sink, clock, tasks, last, calls>>
discvars == <<disc, sfiles>>
crudvars == <<db, cache, cache_enabled, resp, noid, creating>>

anvars == <<analyses>>
cachevars == <<reading, writing>>
routevars == <<rfiles>>

vars == <<runvars, discvars, crudvars, anvars, cachevars, routevars>>

\* app/schemas/test.py TestRunResult, before create_test_run fills it
EmptyRun ==
    [id |-> NoRun, project_id |-> "-", service_id |-> "-", status |-> "pending",
     start_time |-> NoTime, end_time |-> NoTime, duration_seconds |-> NoDuration,
     total_tests |-> 0, passed_tests |-> 0, failed_tests |-> 0,
     error_tests |-> 0, skipped_tests |-> 0, log_ids |-> <<>>, metadata |-> {}]

\* what the container does with the test command and the copy, as far as
\* the caller of run_service_tests can set it up
NoEnv == [exec |-> "-", report |-> NoReport, copy |-> "-"]

Envs ==
    { [exec |-> "raises", report |-> NoReport, copy |-> "raises"] } \cup
    { [exec |-> "ran", report |-> r, copy |-> c] :
        r \in Reports \cup {NoReport}, c \in {"raises", "nonzero", "ok"} }

\* app/schemas/test.py TestAnalysisResult, as far as the callers look at it
NoAnalysis == [test_run_id |-> NoRun, success |-> FALSE]

\* a coroutine's frame: the operation, the await it is suspended at, its locals
IdleTask ==
    [op |-> "-", pc |-> "idle", rid |-> NoRun, run |-> EmptyRun, outcome |-> "-",
     avail |-> "unchecked", stderr |-> FALSE, artifact |-> "-",
     report |-> NoReport, idx |-> 0,
     stdout_id |-> 0, execs |-> 0, copies |-> 0, logfail |-> FALSE,
     env |-> NoEnv, listing |-> <<>>, base |-> 0, analysis |-> NoAnalysis]

Active == {t \in Slots : tasks[t].pc # "idle"}

Init ==
    /\ store = <<>>
    /\ reports = <<>>
    /\ cfiles = <<>>
    /\ sink = <<>>
    /\ clock = 0
    /\ tasks = [t \in Slots |-> IdleTask]
    /\ last = IdleTask
    /\ calls = 0
    /\ disc = IdleDisc
    /\ sfiles = <<>>
    /\ db = [k \in Kinds |-> {}]
    /\ cache = <<>>
    /\ cache_enabled = FALSE
    /\ resp = NoResponse
    /\ noid = 0
    /\ creating = EmptyBag
    /\ analyses = <<>>
    /\ reading = IdleRead
    /\ writing = IdleWrite
    /\ rfiles = <<>>

----------------------------------------------------------------------------
(* Run metadata store *)

\* _save_test_run_metadata: test_run.dict() with both timestamps as
\* isoformat strings, dumped over metadata.json
Serialize(run) ==
    [run EXCEPT !.start_time = IsoFormat(run.start_time),
                !.end_time = IF run.end_time = NoTime THEN <<>>
                             ELSE IsoFormat(run.end_time)]

\* TestRunResult(**metadata) in get_test_run
Deserialize(m) ==
    [m EXCEPT !.start_time = ParseIso(m.start_time),
              !.end_time = IF m.end_time = <<>> THEN NoTime
                           ELSE ParseIso(m.end_time)]

\* a save that would keep the persisted log ids the saved copy does not have
SaveMetadataMerging(st, run) ==
    LET kept == IF run.id \in DOMAIN st
                THEN SelectSeq(st[run.id].log_ids,
                               LAMBDA x : \A j \in 1..Len(run.log_ids) : run.log_ids[j] # x)
                ELSE <<>>
    IN  (run.id :> Serialize([run EXCEPT !.log_ids = kept \o @])) @@ st

\* _save_test_run_metadata: metadata.json is rewritten with the object given
SaveMetadata(st, run) == (run.id :> Serialize(run)) @@ st

HasRun(st, id) == id \in DOMAIN st

GetTestRun(st, id) == Deserialize(st[id])

----------------------------------------------------------------------------
(* Log sink *)

\* app/schemas/log.py Severity: the member names that exist
SeverityMembers == {"DEBUG", "INFO", "WARN", "ERROR", "CRITICAL"}

\* evaluating Severity.<name> raises AttributeError unless name is a member
RaisesAttributeError(name) == name \notin SeverityMembers

\* Severity.<name>.value
SeverityValue(name) ==
    CASE name = "DEBUG" -> "debug"
      [] name = "INFO" -> "info"
      [] name = "WARN" -> "warn"
      [] name = "WARNING" -> "warning"
      [] name = "ERROR" -> "error"
      [] name = "CRITICAL" -> "critical"

\* the LogCreate the test service hands to create_log
LogEntry(run_id, kind, sevname, detail) ==
    [test_id |-> run_id, kind |-> kind, severity |-> SeverityValue(sevname),
     detail |-> detail]

\* the id create_log returns for the entry it stores
NewLogId == Len(sink) + 1

----------------------------------------------------------------------------
(* Coroutine plumbing *)

\* a call may start in slot t: the slot is free, it is the first free slot,
\* fewer than k coroutines are in flight and the call budget is not used up
CanStart(k, t) ==
    /\ tasks[t].pc = "idle"
    /\ \A u \in Slots : tasks[u].pc = "idle" => t <= u
    /\ Cardinality(Active) < k
    /\ calls < MaxCalls

\* a call starts in slot t with frame f
Launch(t, f) ==
    /\ tasks' = [tasks EXCEPT ![t] = f]
    /\ last' = IdleTask
    /\ UNCHANGED <<discvars, crudvars, anvars, cachevars, routevars>>

\* the coroutine in slot t moves on with frame f
Continue(t, f) ==
    /\ tasks' = [tasks EXCEPT ![t] = f]
    /\ UNCHANGED <<last, discvars, crudvars, anvars, cachevars, routevars>>

\* the coroutine in slot t completes: it returned or raised
Finish(t, f, out) ==
    /\ tasks' = [tasks EXCEPT ![t] = IdleTask]
    /\ last' = [f EXCEPT !.pc = "done", !.outcome = out]
    /\ UNCHANGED <<discvars, crudvars, anvars, cachevars, routevars>>

Tick ==
    /\ clock < MaxClock
    /\ clock' = clock + 1
    /\ UNCHANGED <<store, reports, cfiles, sink, tasks, last, calls, discvars, crudvars, anvars, cachevars, routevars>>

----------------------------------------------------------------------------
(* create_test_run *)

\* FreshRunId without uuid4's uniqueness: an id a run may already have
StaleRunId == IF DOMAIN store = {} THEN Cardinality(DOMAIN store) + 1
              ELSE CHOOSE r \in DOMAIN store : TRUE

\* uuid4(): an id no run has
FreshRunId == Cardinality(DOMAIN store) + 1

\* create_test_run up to its await of create_log; run_service_tests starts
\* with the same call
BeginCreate(k, t, op, p, s) ==
    /\ CanStart(k, t)
    /\ FreshRunId \in RunIds
    /\ LET run == [EmptyRun EXCEPT !.id = FreshRunId, !.project_id = p,
                                   !.service_id = s, !.start_time = clock]
       IN  /\ store' = SaveMetadata(store, run)
           /\ Launch(t, [IdleTask EXCEPT !.op = op, !.pc = "start_log",
                                           !.rid = run.id, !.run = run])
    /\ calls' = calls + 1
    /\ UNCHANGED <<reports, cfiles, sink, clock>>

CreateTestRun(k, t, p, s) == BeginCreate(k, t, "create_test_run", p, s)

\* the "Test run started" entry, and the rest of create_test_run
StartLog(t) ==
    LET f == tasks[t] IN
    /\ f.pc = "start_log"
    /\ \E ok \in BOOLEAN :
        IF ok
        THEN LET run == [f.run EXCEPT !.log_ids = Append(@, NewLogId)] IN
             /\ sink' = Append(sink, LogEntry(f.rid, "start", "INFO", <<>>))
             /\ store' = SaveMetadata(store, run)
             /\ IF f.op = "create_test_run"
                THEN Finish(t, [f EXCEPT !.run = run], "returned")
                ELSE Continue(t, [f EXCEPT !.run = run, !.pc = "rs_check"])
        ELSE /\ Finish(t, [f EXCEPT !.logfail = TRUE], "raised")
             /\ UNCHANGED <<store, sink>>
    /\ UNCHANGED <<reports, cfiles, clock, calls>>

----------------------------------------------------------------------------
(* execute_test_run *)

\* one report path for every run of a container
ReportFileFixed(run) == <<run.service_id, NoRun>>

\* the in-container path of the report: /tmp/test-report-<run id>.json
ReportFile(run) == <<run.service_id, run.id>>

\* except Exception in execute_test_run, up to its await of create_log
EnterHandler(t, f) ==
    /\ Continue(t, [f EXCEPT !.pc = "handler_log",
                             !.run.status = "error",
                             !.run.end_time = clock,
                             !.run.duration_seconds = clock - f.run.start_time])
    /\ store' = store

\* severity of the "Test run completed" entry
CompletionSeverity(status) == IF status = "passed" THEN "INFO" ELSE "WARNING"

\* _process_test_results from "Update end time and duration" to the await of
\* the completion entry's create_log
Finalize(t, f) ==
    LET g == [f EXCEPT !.run.end_time = clock,
                       !.run.duration_seconds = clock - f.run.start_time]
    IN  IF RaisesAttributeError(CompletionSeverity(g.run.status))
        THEN /\ Continue(t, [g EXCEPT !.pc = "handler_log",
                                      !.run.status = "error",
                                      !.run.end_time = clock,
                                      !.run.duration_seconds = clock - g.run.start_time])
             /\ store' = SaveMetadata(store, g.run)
        ELSE /\ Continue(t, [g EXCEPT !.pc = "completion_log"])
             /\ store' = SaveMetadata(store, g.run)

\* inner except of _process_test_results
ProcessError(t, f) ==
    /\ Continue(t, [f EXCEPT !.pc = "process_error_log", !.run.status = "error"])
    /\ store' = store

\* severity of the entry of one test case
CaseSeverity(outcome) ==
    CASE outcome = "failed" -> "ERROR"
      [] outcome = "skipped" -> "WARNING"
      [] OTHER -> "INFO"

\* the loop over report_data['tests'], up to the next await of create_log
CaseLoop(t, f) ==
    IF f.idx > Len(f.report.tests)
    THEN Finalize(t, f)
    ELSE IF RaisesAttributeError(CaseSeverity(f.report.tests[f.idx]))
         THEN ProcessError(t, f)
         ELSE /\ Continue(t, [f EXCEPT !.pc = "case_log"])
              /\ store' = store

\* summary.get(key, 0) of report_data.get('summary', {})
SummaryGet(rpt, key) ==
    IF rpt.summary = NoSummary THEN 0
    ELSE CASE key = "total" -> rpt.summary.total
           [] key = "passed" -> rpt.summary.passed
           [] key = "failed" -> rpt.summary.failed
           [] key = "error" -> rpt.summary.error
           [] key = "skipped" -> rpt.summary.skipped

\* "Determine overall status"
DeriveStatus(failed, error) ==
    IF failed > 0 \/ error > 0 THEN "failed" ELSE "passed"

\* _process_test_results up to its first await; reps are the local report
\* files at that moment
ProcessTestResults(t, f, reps) ==
    IF f.rid \in DOMAIN reps
    THEN LET rpt == reps[f.rid] IN
         IF ~rpt.json
         THEN ProcessError(t, [f EXCEPT !.artifact = "malformed"])
         ELSE CaseLoop(t, [f EXCEPT
                 !.artifact = "parsed",
                 !.report = rpt,
                 !.idx = 1,
                 !.run.total_tests = SummaryGet(rpt, "total"),
                 !.run.passed_tests = SummaryGet(rpt, "passed"),
                 !.run.failed_tests = SummaryGet(rpt, "failed"),
                 !.run.error_tests = SummaryGet(rpt, "error"),
                 !.run.skipped_tests = SummaryGet(rpt, "skipped"),
                 !.run.status = DeriveStatus(SummaryGet(rpt, "failed"),
                                             SummaryGet(rpt, "error"))])
    ELSE /\ Continue(t, [f EXCEPT !.pc = "no_report_log", !.artifact = "missing",
                                  !.run.status = "error"])
         /\ store' = store

\* RunNotFound with a record written for the unknown id before the raise
RunNotFoundScaffold(t, r) ==
    /\ Finish(t, [IdleTask EXCEPT !.op = "execute_test_run", !.rid = r], "raised")
    /\ store' = SaveMetadata(store, [EmptyRun EXCEPT !.id = r, !.start_time = clock,
                                                     !.status = "error"])

\* get_test_run gave None: raise ValueError("Test run with ID ... not found")
RunNotFound(t, r) ==
    /\ Finish(t, [IdleTask EXCEPT !.op = "execute_test_run", !.rid = r], "raised")
    /\ store' = store

\* execute_test_run up to its first await; base is the number of log entries
\* the sink holds when the call starts
ExecuteTestRun(k, t, r) ==
    /\ CanStart(k, t)
    /\ calls' = calls + 1
    /\ IF ~HasRun(store, r)
       THEN RunNotFound(t, r)
       ELSE LET run == [GetTestRun(store, r) EXCEPT !.status = "running"] IN
            /\ store' = SaveMetadata(store, run)
            /\ Launch(t, [IdleTask EXCEPT !.op = "execute_test_run",
                                          !.pc = "check_docker",
                                          !.rid = r, !.run = run,
                                          !.base = Len(sink)])
    /\ UNCHANGED <<reports, cfiles, sink, clock>>

\* _check_docker_available, first call
CheckDocker(t) ==
    LET f == tasks[t] IN
    /\ f.pc = "check_docker"
    /\ \E a \in BOOLEAN :
        Continue(t, [f EXCEPT !.avail = IF a THEN "yes" ELSE "no",
                              !.pc = IF a THEN "check_again" ELSE "unavailable_log"])
    /\ UNCHANGED <<store, reports, cfiles, sink, clock, calls>>

\* the "Docker is not available" entry and the early return
UnavailableLog(t) ==
    LET f == tasks[t] IN
    /\ f.pc = "unavailable_log"
    /\ \E ok \in BOOLEAN :
        IF ok
        THEN LET run == [f.run EXCEPT !.status = "error",
                                      !.end_time = clock,
                                      !.log_ids = Append(@, NewLogId),
                                      !.metadata = @ \cup {"error_message"}] IN
             /\ sink' = Append(sink, LogEntry(f.rid, "docker_error", "ERROR", <<>>))
             /\ store' = SaveMetadata(store, run)
             /\ Finish(t, [f EXCEPT !.run = run], "returned")
        ELSE /\ EnterHandler(t, [f EXCEPT !.logfail = TRUE])
             /\ sink' = sink
    /\ UNCHANGED <<reports, cfiles, clock, calls>>

\* CheckAgain without the raise: the exec is issued whatever the check says
CheckAgainIgnored(t) ==
    LET f == tasks[t] IN
    /\ f.pc = "check_again"
    /\ \E a \in BOOLEAN :
        /\ Continue(t, [f EXCEPT !.pc = "exec", !.avail = IF a THEN "yes" ELSE "no"])
        /\ store' = store
    /\ UNCHANGED <<reports, cfiles, sink, clock, calls>>

\* _run_test_in_container: "Check Docker availability again as a safeguard"
CheckAgain(t) ==
    LET f == tasks[t] IN
    /\ f.pc = "check_again"
    /\ \E a \in BOOLEAN :
        IF a THEN Continue(t, [f EXCEPT !.pc = "exec"]) /\ store' = store
        ELSE EnterHandler(t, [f EXCEPT !.avail = "no"])
    /\ UNCHANGED <<reports, cfiles, sink, clock, calls>>

\* docker exec of pytest with --json-report-file: the spawn raises, or the
\* command ends and pytest wrote a report or none
ContainerExec(t) ==
    LET f == tasks[t]
        g == [f EXCEPT !.execs = @ + 1] IN
    /\ f.pc = "exec"
    /\ \/ /\ EnterHandler(t, g)
          /\ cfiles' = cfiles
       \/ \E rpt \in Reports \cup {NoReport} :
          /\ cfiles' = IF rpt = NoReport THEN cfiles
                       ELSE (ReportFile(f.run) :> rpt) @@ cfiles
          /\ Continue(t, [g EXCEPT !.pc = "copy"])
          /\ store' = store
    /\ UNCHANGED <<reports, sink, clock, calls>>

\* docker cp of the report into the run directory, then either the except
\* branch (the only reader of the command's stderr, empty or not) or
\* _process_test_results up to its first await
CopyReport(t) ==
    LET f == tasks[t]
        g == [f EXCEPT !.copies = @ + 1] IN
    /\ f.pc = "copy"
    /\ \/ \E err \in BOOLEAN :
          /\ Continue(t, [g EXCEPT !.pc = "capture_stdout", !.stderr = err])
          /\ UNCHANGED <<store, reports>>
       \/ \E cp \in {"nonzero", "ok"} :
            LET reps == IF cp = "ok" /\ ReportFile(f.run) \in DOMAIN cfiles
                        THEN (f.rid :> cfiles[ReportFile(f.run)]) @@ reports
                        ELSE reports IN
            /\ reports' = reps
            /\ ProcessTestResults(t, g, reps)
    /\ UNCHANGED <<cfiles, sink, clock, calls>>

\* severity of the "Test execution stderr" entry
StderrSeverity(nonempty) == IF nonempty THEN "WARNING" ELSE "INFO"

\* except branch of the copy: the "Test execution stdout" entry, then the
\* LogCreate of the stderr entry is built
CaptureStdout(t) ==
    LET f == tasks[t] IN
    /\ f.pc = "capture_stdout"
    /\ \E ok \in BOOLEAN :
        IF ok
        THEN /\ sink' = Append(sink, LogEntry(f.rid, "stdout", "INFO", <<>>))
             /\ IF RaisesAttributeError(StderrSeverity(f.stderr))
                THEN EnterHandler(t, [f EXCEPT !.stdout_id = NewLogId])
                ELSE /\ Continue(t, [f EXCEPT !.pc = "capture_stderr",
                                              !.stdout_id = NewLogId])
                     /\ store' = store
        ELSE /\ EnterHandler(t, [f EXCEPT !.logfail = TRUE])
             /\ sink' = sink
    /\ UNCHANGED <<reports, cfiles, clock, calls>>

\* except branch of the copy: the "Test execution stderr" entry, log_ids.extend
\* and _process_test_results up to its first await
CaptureStderr(t) ==
    LET f == tasks[t] IN
    /\ f.pc = "capture_stderr"
    /\ \E ok \in BOOLEAN :
        IF ok
        THEN /\ sink' = Append(sink, LogEntry(f.rid, "stderr",
                                              StderrSeverity(f.stderr), <<>>))
             /\ ProcessTestResults(t,
                    [f EXCEPT !.run.log_ids = @ \o <<f.stdout_id, NewLogId>>],
                    reports)
        ELSE /\ EnterHandler(t, [f EXCEPT !.logfail = TRUE])
             /\ sink' = sink
    /\ UNCHANGED <<reports, cfiles, clock, calls>>

\* the entry of test case idx, and the loop up to the next await
CaseLog(t) ==
    LET f == tasks[t]
        outcome == f.report.tests[f.idx] IN
    /\ f.pc = "case_log"
    /\ \E ok \in BOOLEAN :
        IF ok
        THEN /\ sink' = Append(sink, LogEntry(f.rid, "case", CaseSeverity(outcome),
                                              <<f.idx, outcome>>))
             /\ CaseLoop(t, [f EXCEPT !.run.log_ids = Append(@, NewLogId),
                                      !.idx = @ + 1])
        ELSE /\ ProcessError(t, [f EXCEPT !.logfail = TRUE])
             /\ sink' = sink
    /\ UNCHANGED <<reports, cfiles, clock, calls>>

\* the "Error processing test results" entry, then the common tail
ProcessErrorLog(t) ==
    LET f == tasks[t] IN
    /\ f.pc = "process_error_log"
    /\ \E ok \in BOOLEAN :
        IF ok
        THEN /\ sink' = Append(sink, LogEntry(f.rid, "process_error", "ERROR", <<>>))
             /\ Finalize(t, [f EXCEPT !.run.log_ids = Append(@, NewLogId)])
        ELSE /\ EnterHandler(t, [f EXCEPT !.logfail = TRUE])
             /\ sink' = sink
    /\ UNCHANGED <<reports, cfiles, clock, calls>>

\* the "No test report found" entry, then the common tail
NoReportLog(t) ==
    LET f == tasks[t] IN
    /\ f.pc = "no_report_log"
    /\ \E ok \in BOOLEAN :
        IF ok
        THEN /\ sink' = Append(sink, LogEntry(f.rid, "no_report", "ERROR", <<>>))
             /\ Finalize(t, [f EXCEPT !.run.log_ids = Append(@, NewLogId)])
        ELSE /\ EnterHandler(t, [f EXCEPT !.logfail = TRUE])
             /\ sink' = sink
    /\ UNCHANGED <<reports, cfiles, clock, calls>>

\* the "Test run completed" entry, the last save and the return
CompletionLog(t) ==
    LET f == tasks[t] IN
    /\ f.pc = "completion_log"
    /\ \E ok \in BOOLEAN :
        IF ok
        THEN LET run == [f.run EXCEPT !.log_ids = Append(@, NewLogId)] IN
             /\ sink' = Append(sink, LogEntry(f.rid, "completion",
                                              CompletionSeverity(f.run.status), <<>>))
             /\ store' = SaveMetadata(store, run)
             /\ Finish(t, [f EXCEPT !.run = run], "returned")
        ELSE /\ EnterHandler(t, [f EXCEPT !.logfail = TRUE])
             /\ sink' = sink
    /\ UNCHANGED <<reports, cfiles, clock, calls>>

\* a handler that would save the run before appending the id of its entry
HandlerLogUnsaved(t) ==
    LET f == tasks[t] IN
    /\ f.pc = "handler_log"
    /\ \E ok \in BOOLEAN :
        IF ok
        THEN LET run == [f.run EXCEPT !.log_ids = Append(@, NewLogId)] IN
             /\ sink' = Append(sink, LogEntry(f.rid, "execution_error", "ERROR", <<>>))
             /\ store' = SaveMetadata(store, f.run)
             /\ Finish(t, [f EXCEPT !.run = run], "returned")
        ELSE /\ Finish(t, [f EXCEPT !.logfail = TRUE], "raised")
             /\ UNCHANGED <<store, sink>>
    /\ UNCHANGED <<reports, cfiles, clock, calls>>

\* the handler's "Test execution error" entry, its save and its return; the
\* handler's own create_log is not guarded
HandlerLog(t) ==
    LET f == tasks[t] IN
    /\ f.pc = "handler_log"
    /\ \E ok \in BOOLEAN :
        IF ok
        THEN LET run == [f.run EXCEPT !.log_ids = Append(@, NewLogId)] IN
             /\ sink' = Append(sink, LogEntry(f.rid, "execution_error", "ERROR", <<>>))
             /\ store' = SaveMetadata(store, run)
             /\ Finish(t, [f EXCEPT !.run = run], "returned")
        ELSE /\ Finish(t, [f EXCEPT !.logfail = TRUE], "raised")
             /\ UNCHANGED <<store, sink>>
    /\ UNCHANGED <<reports, cfiles, clock, calls>>

----------------------------------------------------------------------------
(* run_service_tests *)

\* parameters of create_logger(project_id, service_id), none with a default
CreateLoggerParams == 2

\* arguments of the call create_logger(f"test_run_{test_run.id}")
RunLoggerArgs == 1

\* the call raises TypeError: a required positional argument is missing
CreateLoggerRaises == RunLoggerArgs < CreateLoggerParams

RunServiceTests(k, t, p, s) == BeginCreate(k, t, "run_service_tests", p, s)

\* _check_docker_available, then "Update test run to indicate it's running"
\* and the creation of the custom logger, which is outside the try block.
\* env is how the container would answer the exec and the copy.
ServiceCheckDocker(t) ==
    LET f == tasks[t] IN
    /\ f.pc = "rs_check"
    /\ \/ /\ Continue(t, [f EXCEPT !.avail = "no", !.pc = "rs_unavailable_log"])
          /\ store' = store
       \/ \E env \in Envs :
            LET run == [f.run EXCEPT !.status = "running"] IN
            /\ CreateLoggerRaises
            /\ store' = SaveMetadata(store, run)
            /\ Finish(t, [f EXCEPT !.avail = "yes", !.run = run, !.env = env],
                      "raised")
    /\ UNCHANGED <<reports, cfiles, sink, clock, calls>>

\* the "Docker is not available on the system" entry and the early return
ServiceUnavailableLog(t) ==
    LET f == tasks[t] IN
    /\ f.pc = "rs_unavailable_log"
    /\ \E ok \in BOOLEAN :
        IF ok
        THEN LET run == [f.run EXCEPT !.status = "error"] IN
             /\ sink' = Append(sink, LogEntry(f.rid, "docker_error", "ERROR", <<>>))
             /\ store' = SaveMetadata(store, run)
             /\ Finish(t, [f EXCEPT !.run = run], "returned")
        ELSE /\ Finish(t, [f EXCEPT !.logfail = TRUE], "raised")
             /\ UNCHANGED <<store, sink>>
    /\ UNCHANGED <<reports, cfiles, clock, calls>>

----------------------------------------------------------------------------
(* update_test_run *)

\* TestRunUpdate bodies: one that sets status, one that sets log_ids to []
UpdateInputs ==
    [status : TestStatus, log_ids : {"unset"}] \cup
    [status : {"unset"}, log_ids : {"empty"}]

\* setattr of every field that is set in the update
ApplyUpdate(run, upd) ==
    [run EXCEPT !.status = IF upd.status = "unset" THEN @ ELSE upd.status,
                !.log_ids = IF upd.log_ids = "unset" THEN @ ELSE <<>>]

\* update_test_run has no await that suspends: load, setattr, save
UpdateTestRun(k, t, r, upd) ==
    /\ CanStart(k, t)
    /\ calls' = calls + 1
    /\ IF ~HasRun(store, r)
       THEN /\ Finish(t, [IdleTask EXCEPT !.op = "update_test_run", !.rid = r],
                      "returned")
            /\ store' = store
       ELSE LET run == ApplyUpdate(GetTestRun(store, r), upd) IN
            /\ store' = SaveMetadata(store, run)
            /\ Finish(t, [IdleTask EXCEPT !.op = "update_test_run", !.rid = r,
                                          !.run = run], "returned")
    /\ UNCHANGED <<reports, cfiles, sink, clock>>

----------------------------------------------------------------------------
(* get_test_runs_by_project, get_test_runs_by_service *)

\* the orders in which os.listdir may yield the run directories in ids
RECURSIVE Listings(_)
Listings(ids) ==
    IF ids = {} THEN {<<>>}
    ELSE UNION {{<<x>> \o rest : rest \in Listings(ids \ {x})} : x \in ids}

\* InsertNewestFirst without reverse=True
RECURSIVE InsertOldestFirst(_, _)
InsertOldestFirst(sorted, x) ==
    IF sorted = <<>> THEN <<x>>
    ELSE IF Head(sorted).start_time <= x.start_time
         THEN <<Head(sorted)>> \o InsertOldestFirst(Tail(sorted), x)
         ELSE <<x>> \o sorted

\* list.sort(key=start_time, reverse=True) inserts x: after the elements
\* that are not older, so that equal keys keep their order
RECURSIVE InsertNewestFirst(_, _)
InsertNewestFirst(sorted, x) ==
    IF sorted = <<>> THEN <<x>>
    ELSE IF Head(sorted).start_time >= x.start_time
         THEN <<Head(sorted)>> \o InsertNewestFirst(Tail(sorted), x)
         ELSE <<x>> \o sorted

RECURSIVE SortNewestFirst(_)
SortNewestFirst(runs) ==
    IF runs = <<>> THEN <<>>
    ELSE InsertNewestFirst(SortNewestFirst(SubSeq(runs, 1, Len(runs) - 1)),
                           runs[Len(runs)])

\* the metadata files read in listing order
LoadAll(order) == [i \in 1..Len(order) |-> GetTestRun(store, order[i])]

\* neither function has an await that suspends: list, load, sort
ListRuns(k, t, op, ids) ==
    /\ CanStart(k, t)
    /\ calls' = calls + 1
    /\ \E order \in Listings(ids) :
        Finish(t, [IdleTask EXCEPT !.op = op,
                                   !.listing = SortNewestFirst(LoadAll(order))],
               "returned")
    /\ UNCHANGED <<store, reports, cfiles, sink, clock>>

GetTestRunsByProject(k, t, p) ==
    ListRuns(k, t, "get_test_runs_by_project",
             {r \in DOMAIN store : store[r].project_id = p})

GetTestRunsByService(k, t, s) ==
    ListRuns(k, t, "get_test_runs_by_service",
             {r \in DOMAIN store : GetTestRun(store, r).service_id = s})

----------------------------------------------------------------------------
(* Specification *)

\* the steps of the coroutines in flight
Resume(t) ==
    \/ StartLog(t)
    \/ CheckDocker(t)
    \/ UnavailableLog(t)
    \/ CheckAgain(t)
    \/ ContainerExec(t)
    \/ CopyReport(t)
    \/ CaptureStdout(t)
    \/ CaptureStderr(t)
    \/ CaseLog(t)
    \/ ProcessErrorLog(t)
    \/ NoReportLog(t)
    \/ CompletionLog(t)
    \/ HandlerLog(t)
    \/ ServiceCheckDocker(t)
    \/ ServiceUnavailableLog(t)

\* the calls a client may make while fewer than k coroutines are in flight
Call(k, t) ==
    \/ \E tg \in Targets : CreateTestRun(k, t, tg[1], tg[2])
    \/ \E r \in RunIds : ExecuteTestRun(k, t, r)
    \/ \E tg \in Targets : RunServiceTests(k, t, tg[1], tg[2])
    \/ \E r \in RunIds, upd \in UpdateInputs : UpdateTestRun(k, t, r, upd)
    \/ \E p \in ProjectIds : GetTestRunsByProject(k, t, p)
    \/ \E s \in ServiceIds : GetTestRunsByService(k, t, s)

\* one call at a time
Next ==
    \/ Tick
    \/ \E t \in Slots : Call(1, t)
    \/ \E t \in Slots : Resume(t)

Spec == Init /\ [][Next]_vars

----------------------------------------------------------------------------
(* Calls that overlap on runs that exist *)

\* the calls that may start once the two runs exist
MaxOverlap == 2

\* what create_test_run leaves and returns for its id-th call, on service s
CreatedRun(id, p, s) ==
    [EmptyRun EXCEPT !.id = id, !.project_id = p, !.service_id = s,
                     !.start_time = 0, !.log_ids = <<id>>]

\* two create_test_run calls for the same service have returned: two pending
\* runs, each with its run-started entry
InitOverlap ==
    /\ store = (1 :> Serialize(CreatedRun(1, "P1", "S1")))
               @@ (2 :> Serialize(CreatedRun(2, "P1", "S1")))
    /\ reports = <<>>
    /\ cfiles = <<>>
    /\ sink = <<LogEntry(1, "start", "INFO", <<>>), LogEntry(2, "start", "INFO", <<>>)>>
    /\ clock = 0
    /\ tasks = [t \in Slots |-> IdleTask]
    /\ last = [IdleTask EXCEPT !.op = "create_test_run", !.pc = "done",
                               !.outcome = "returned", !.rid = 2,
                               !.run = CreatedRun(2, "P1", "S1")]
    /\ calls = MaxCalls - MaxOverlap
    /\ disc = IdleDisc
    /\ sfiles = <<>>
    /\ db = [k \in Kinds |-> {}]
    /\ cache = <<>>
    /\ cache_enabled = FALSE
    /\ resp = NoResponse
    /\ noid = 0
    /\ creating = EmptyBag
    /\ analyses = <<>>
    /\ reading = IdleRead
    /\ writing = IdleWrite
    /\ rfiles = <<>>

\* the steps of an execute_test_run in flight
ExecuteStep(t) ==
    \/ CheckDocker(t)
    \/ UnavailableLog(t)
    \/ CheckAgain(t)
    \/ ContainerExec(t)
    \/ CopyReport(t)
    \/ CaptureStdout(t)
    \/ CaptureStderr(t)
    \/ CaseLog(t)
    \/ ProcessErrorLog(t)
    \/ NoReportLog(t)
    \/ CompletionLog(t)
    \/ HandlerLog(t)

\* execute_test_run and update_test_run, two coroutines at a time, within
\* one tick of the clock
NextOverlap ==
    \/ \E t \in Slots, r \in RunIds : ExecuteTestRun(2, t, r)
    \/ \E t \in Slots, r \in RunIds, upd \in UpdateInputs : UpdateTestRun(2, t, r, upd)
    \/ \E t \in Slots : ExecuteStep(t)

SpecOverlap == InitOverlap /\ [][NextOverlap]_vars

----------------------------------------------------------------------------
(* POST /services/run-tests/{service_id} *)

\* a report path of its own for every call, numbered n
RunTestsReportFileOwn(container, n) == <<container, n>>

\* --json-report-file=/tmp/report.json and get_archive('/tmp/report.json'):
\* the one report path of a container, whichever call n uses it
RunTestsReportFile(container, n) == <<container, NoRun>>

\* report-<service name>-<%Y%m%d_%H%M%S>.json: the timestamp has whole seconds
LocalReportPath(s, now) == <<s, now \div TicksPerSec>>

\* the route up to its first await, the lookup of the service
RunTestsRoute(k, t, p, s) ==
    /\ CanStart(k, t)
    /\ calls' = calls + 1
    /\ Launch(t, [IdleTask EXCEPT !.op = "run_tests_route", !.pc = "route_service",
                                  !.run.project_id = p, !.run.service_id = s,
                                  !.idx = calls + 1])
    /\ UNCHANGED <<store, reports, cfiles, sink, clock>>

\* the service is found and the project is looked up, or a lookup raises
RouteService(t) ==
    LET f == tasks[t] IN
    /\ f.pc = "route_service"
    /\ \/ Continue(t, [f EXCEPT !.pc = "route_project"])
       \/ Finish(t, f, "raised")
    /\ UNCHANGED <<store, reports, cfiles, sink, clock, calls>>

\* json.load of the local report: None when it is missing or is not JSON
LoadLocalReport(files, path) ==
    IF path \in DOMAIN files /\ files[path].json THEN files[path] ELSE NoReport

\* the route from the answer of the project lookup to its return, with no
\* await in between: the Docker client, exec_run of pytest, get_archive of the
\* report into the local file, the parse of the local file and the result
RouteRun(t) ==
    LET f == tasks[t] IN
    /\ f.pc = "route_project"
    /\ \E a \in BOOLEAN, env \in {e \in Envs : e.copy # "nonzero"} :
         LET key    == RunTestsReportFile(f.run.service_id, f.idx)
             path   == LocalReportPath(f.run.service_id, clock)
             ran    == a /\ env.exec = "ran"
             cf     == IF ran /\ env.report # NoReport
                       THEN (key :> env.report) @@ cfiles ELSE cfiles
             copied == ran /\ env.copy = "ok" /\ key \in DOMAIN cf
             rf     == IF copied THEN (path :> cf[key]) @@ rfiles ELSE rfiles
             rpt    == IF ran THEN LoadLocalReport(rf, path) ELSE NoReport
             g      == [f EXCEPT
                          !.avail = IF a THEN "yes" ELSE "no",
                          !.env = env,
                          !.execs = IF ran THEN 1 ELSE 0,
                          !.copies = IF copied THEN 1 ELSE 0,
                          !.report = rpt,
                          !.artifact = IF rpt = NoReport THEN "-" ELSE "parsed",
                          !.run.total_tests = IF rpt = NoReport THEN 0
                                              ELSE SummaryGet(rpt, "total"),
                          !.run.passed_tests = IF rpt = NoReport THEN 0
                                               ELSE SummaryGet(rpt, "passed"),
                          !.run.failed_tests = IF rpt = NoReport THEN 0
                                               ELSE SummaryGet(rpt, "failed")]
         IN  /\ cfiles' = cf
             /\ rfiles' = rf
             /\ tasks' = [tasks EXCEPT ![t] = IdleTask]
             /\ last' = [g EXCEPT !.pc = "done", !.outcome = "returned"]
    /\ UNCHANGED <<store, reports, sink, clock, calls>>
    /\ UNCHANGED <<discvars, crudvars, anvars, cachevars>>

\* requests to run the tests of a service, two in flight at a time
NextRunTests ==
    \/ Tick
    \/ \E t \in Slots, tg \in Targets : RunTestsRoute(2, t, tg[1], tg[2])
    \/ \E t \in Slots : RouteService(t)
    \/ \E t \in Slots : RouteRun(t)

SpecRunTests == Init /\ [][NextRunTests]_vars

----------------------------------------------------------------------------
(* TestAnalyzerService *)

\* what the Gemini model does with the prompt: there is no model, it answers,
\* its answer has no text, or the call raises
GeminiOutcomes == {"no_model", "ok", "bad_response", "raises"}

\* _generate_analysis: every outcome gives a result, only an answer succeeds
GenerateAnalysis(run, o) == [test_run_id |-> run.id, success |-> (o = "ok")]

\* a _save_analysis that would also rewrite the run record with a pointer
SaveAnalysisIntoRun(st, an, run, a) ==
    [an |-> (run.id :> a) @@ an,
     st |-> SaveMetadata(st, [run EXCEPT !.metadata = @ \cup {"analysis"}])]

\* _save_analysis: analysis.json of the run's directory is written, no more
SaveAnalysis(st, an, run, a) == [an |-> (run.id :> a) @@ an, st |-> st]

\* analyze_test_run, up to the first log it awaits: an unknown run raises
AnalyzeTestRun(k, t, r) ==
    /\ CanStart(k, t)
    /\ calls' = calls + 1
    /\ LET f == [IdleTask EXCEPT !.op = "analyze_test_run", !.rid = r]
       IN IF ~HasRun(store, r)
          THEN /\ tasks' = tasks
               /\ last' = [f EXCEPT !.pc = "done", !.outcome = "raised"]
          ELSE /\ tasks' = [tasks EXCEPT ![t] =
                     [f EXCEPT !.pc = "analyze", !.run = GetTestRun(store, r)]]
               /\ last' = IdleTask
    /\ UNCHANGED <<store, reports, cfiles, sink, clock>>
    /\ UNCHANGED <<discvars, crudvars, anvars, cachevars, routevars>>

\* analyze_test_run, from the logs on: the logs and the report are read,
\* the analysis is generated and saved, and it is returned
AnalyzeGenerate(t) ==
    /\ tasks[t].pc = "analyze"
    /\ \E o \in GeminiOutcomes :
         LET f == tasks[t]
             a == GenerateAnalysis(f.run, o)
             w == SaveAnalysis(store, analyses, f.run, a)
         IN /\ analyses' = w.an
            /\ store' = w.st
            /\ tasks' = [tasks EXCEPT ![t] = IdleTask]
            /\ last' = [f EXCEPT !.pc = "done", !.outcome = "returned",
                                 !.analysis = a]
    /\ UNCHANGED <<reports, cfiles, sink, clock, calls>>
    /\ UNCHANGED <<discvars, crudvars, cachevars, routevars>>

\* get_analysis: the saved analysis of a known run, or None
GetAnalysis(k, t, r) ==
    /\ CanStart(k, t)
    /\ calls' = calls + 1
    /\ LET f == [IdleTask EXCEPT !.op = "get_analysis", !.rid = r]
           g == IF HasRun(store, r)
                THEN [f EXCEPT !.run = GetTestRun(store, r)] ELSE f
           a == IF HasRun(store, r) /\ r \in DOMAIN analyses
                THEN analyses[r] ELSE NoAnalysis
       IN last' = [g EXCEPT !.pc = "done", !.outcome = "returned",
                            !.analysis = a]
    /\ UNCHANGED <<store, reports, cfiles, sink, clock, tasks>>
    /\ UNCHANGED <<discvars, crudvars, anvars, cachevars, routevars>>

AnalysisOps == {"analyze_test_run", "get_analysis"}

\* the calls of the test service and of the analyzer, one at a time
NextAnalysis ==
    \/ Tick
    \/ \E t \in Slots : Call(1, t)
    \/ \E t \in Slots : Resume(t)
    \/ \E t \in Slots, r \in RunIds : AnalyzeTestRun(1, t, r)
    \/ \E t \in Slots : AnalyzeGenerate(t)
    \/ \E t \in Slots, r \in RunIds : GetAnalysis(1, t, r)

SpecAnalysis == Init /\ [][NextAnalysis]_vars

----------------------------------------------------------------------------
(* collect_service_tests *)

MaxLines == 1

\* what pytest --collect-only -q may print: node identifiers and blank lines
CollectOutputs == SeqsUpTo(NodeIds \cup {<<>>}, MaxLines)

\* _parse_pytest_collect_output: the lines that are not blank
RECURSIVE ParsePytestCollectOutput(_)
ParsePytestCollectOutput(out) ==
    IF out = <<>> THEN <<>>
    ELSE IF Head(out) = <<>> THEN ParsePytestCollectOutput(Tail(out))
         ELSE <<Head(out)>> \o ParsePytestCollectOutput(Tail(out))

\* except Exception in collect_service_tests, up to its await of aerror
DiscHandler(f) ==
    /\ disc' = [f EXCEPT !.pc = "handler_log"]
    /\ sfiles' = sfiles

\* a step of the coroutine that awaits a logger call: the document store
\* inserts the entry and the code goes on to pc, or the insert raises
DiscLog(at, pc) ==
    /\ disc.pc = at
    /\ \/ disc' = [disc EXCEPT !.pc = pc] /\ sfiles' = sfiles
       \/ DiscHandler([disc EXCEPT !.dbfail = TRUE])
    /\ UNCHANGED <<runvars, crudvars, anvars, cachevars, routevars>>

\* the call, up to its first await: create_logger and the response object
CollectServiceTests(tg) ==
    /\ disc.pc \in {"idle", "done"}
    /\ disc' = [IdleDisc EXCEPT !.pc = "log_collecting", !.target = tg,
                                !.metadata = {"tests_path", "collection_command"}]
    /\ UNCHANGED <<sfiles, runvars, crudvars, anvars, cachevars, routevars>>

\* "Collecting tests for service": this await is outside the try block; then
\* os.path.exists of the tests directory
LogCollecting ==
    /\ disc.pc = "log_collecting"
    /\ \/ \E ex \in BOOLEAN :
            disc' = [disc EXCEPT !.exists = ex,
                                 !.pc = IF ex THEN "log_running" ELSE "log_missing"]
       \/ disc' = [disc EXCEPT !.pc = "done", !.dbfail = TRUE, !.outcome = "raised"]
    /\ UNCHANGED <<sfiles, runvars, crudvars, anvars, cachevars, routevars>>

\* "Running pytest --collect-only on"
LogRunning == DiscLog("log_running", "dry_run")

\* the subprocess: the spawn raises, or the command ends with exit status 0
\* and its lines are made into TestItems, or it ends with another status
DryRun ==
    /\ disc.pc = "dry_run"
    /\ \/ DiscHandler(disc)
       \/ \E out \in CollectOutputs :
            LET ids == ParsePytestCollectOutput(out) IN
            /\ disc' = [disc EXCEPT
                  !.rc = "zero", !.lines = ids,
                  !.tests = [i \in 1..Len(ids) |-> CreateTestItemFromNodeid(ids[i], i - 1)],
                  !.fs_tests = Len(ids),
                  !.pc = "log_collected"]
            /\ sfiles' = sfiles
       \/ /\ disc' = [disc EXCEPT !.rc = "nonzero", !.pc = "log_fs_error"]
          /\ sfiles' = sfiles
    /\ UNCHANGED <<runvars, crudvars, anvars, cachevars, routevars>>

\* "Collected n tests from filesystem", then tests_found
LogCollected ==
    /\ disc.pc = "log_collected"
    /\ \/ /\ disc' = [disc EXCEPT !.tests_found = Len(disc.tests) > 0,
                                  !.pc = "log_checking"]
          /\ sfiles' = sfiles
       \/ DiscHandler([disc EXCEPT !.dbfail = TRUE])
    /\ UNCHANGED <<runvars, crudvars, anvars, cachevars, routevars>>

\* "Error collecting tests from filesystem", then the filesystem_error key
LogFsError ==
    /\ disc.pc = "log_fs_error"
    /\ \/ /\ disc' = [disc EXCEPT !.metadata = @ \cup {"filesystem_error"},
                                  !.pc = "log_checking"]
          /\ sfiles' = sfiles
       \/ DiscHandler([disc EXCEPT !.dbfail = TRUE])
    /\ UNCHANGED <<runvars, crudvars, anvars, cachevars, routevars>>

\* LogMissing that returns the response once the directory is reported missing
LogMissingAborts ==
    /\ disc.pc = "log_missing"
    /\ \/ /\ disc' = [disc EXCEPT !.metadata = @ \cup {"filesystem_error"},
                                  !.pc = "done", !.outcome = "returned"]
          /\ sfiles' = sfiles
       \/ DiscHandler([disc EXCEPT !.dbfail = TRUE])
    /\ UNCHANGED <<runvars, crudvars, anvars, cachevars, routevars>>

\* "Tests directory does not exist", then the filesystem_error key
LogMissing ==
    /\ disc.pc = "log_missing"
    /\ \/ /\ disc' = [disc EXCEPT !.metadata = @ \cup {"filesystem_error"},
                                  !.pc = "log_checking"]
          /\ sfiles' = sfiles
       \/ DiscHandler([disc EXCEPT !.dbfail = TRUE])
    /\ UNCHANGED <<runvars, crudvars, anvars, cachevars, routevars>>

\* "Checking database for tests for service_id"
LogChecking == DiscLog("log_checking", "query")

\* find({"service_id": ...}).to_list(length=100) on poly_micro_tests
QueryCatalog ==
    /\ disc.pc = "query"
    /\ \/ \E n \in 0..MaxCatalog :
            disc' = [disc EXCEPT !.queried = TRUE, !.db_tests = n,
                                 !.pc = IF n > 0 THEN "log_found" ELSE "log_none"]
       \/ disc' = [disc EXCEPT !.dbfail = TRUE, !.pc = "handler_log"]
    /\ UNCHANGED <<sfiles, runvars, crudvars, anvars, cachevars, routevars>>

\* "If we have tests from either source": _save_service_tests writes the
\* response file or raises, up to the next await of the logger
DiscTail(f) ==
    IF f.tests_found
    THEN \/ /\ sfiles' = (f.target :> [fs |-> f.fs_tests, db |-> f.db_tests]) @@ sfiles
            /\ disc' = [f EXCEPT !.pc = "log_total"]
         \/ DiscHandler(f)
    ELSE /\ disc' = [f EXCEPT !.pc = "log_no_tests"]
         /\ sfiles' = sfiles

\* "Found n tests in database", then the loop that appends a record for each
LogFound ==
    /\ disc.pc = "log_found"
    /\ \/ DiscTail([disc EXCEPT
              !.tests = @ \o [i \in 1..disc.db_tests |->
                                CatalogTest(disc.target[2], i - 1)],
              !.tests_found = TRUE])
       \/ DiscHandler([disc EXCEPT !.dbfail = TRUE])
    /\ UNCHANGED <<runvars, crudvars, anvars, cachevars, routevars>>

\* "No tests found in database"
LogNone ==
    /\ disc.pc = "log_none"
    /\ \/ DiscTail(disc)
       \/ DiscHandler([disc EXCEPT !.dbfail = TRUE])
    /\ UNCHANGED <<runvars, crudvars, anvars, cachevars, routevars>>

\* "Total of n tests collected" or "No tests found ... in filesystem or
\* database", then return response
LogSummary ==
    /\ disc.pc \in {"log_total", "log_no_tests"}
    /\ \/ /\ disc' = [disc EXCEPT !.pc = "done", !.outcome = "returned"]
          /\ sfiles' = sfiles
       \/ DiscHandler([disc EXCEPT !.dbfail = TRUE])
    /\ UNCHANGED <<runvars, crudvars, anvars, cachevars, routevars>>

\* "Exception while collecting tests", the error key and return response; the
\* handler's own await is not guarded
DiscHandlerLog ==
    /\ disc.pc = "handler_log"
    /\ \/ disc' = [disc EXCEPT !.metadata = @ \cup {"error"},
                               !.pc = "done", !.outcome = "returned"]
       \/ disc' = [disc EXCEPT !.dbfail = TRUE, !.pc = "done", !.outcome = "raised"]
    /\ UNCHANGED <<sfiles, runvars, crudvars, anvars, cachevars, routevars>>

NextDiscovery ==
    \/ \E tg \in Targets : CollectServiceTests(tg)
    \/ LogCollecting
    \/ LogRunning
    \/ DryRun
    \/ LogCollected
    \/ LogFsError
    \/ LogMissing
    \/ LogChecking
    \/ QueryCatalog
    \/ LogFound
    \/ LogNone
    \/ LogSummary
    \/ DiscHandlerLog

SpecDiscovery == Init /\ [][NextDiscovery]_vars

----------------------------------------------------------------------------
(* Repositories and the Redis cache *)

\* BaseRepository.find_one: by _id when the id is an ObjectId string, else
\* by the "id" field
FindOne(coll, ref) ==
    LET hits == IF ref[1] = "oid" THEN {d \in coll : d.oid = ref[2]}
                ELSE {d \in coll : d.id = ref[2]}
    IN  IF hits = {} THEN NoDoc
        ELSE CHOOSE d \in hits : \A e \in hits : d.oid <= e.oid

\* BaseRepository.delete: delete_one by the same filter
DeleteOne(coll, ref) == coll \ {FindOne(coll, ref)}

\* the id create_project and create_log assign: the largest "id" plus one
NextNumericId(coll) ==
    IF coll = {} THEN 1
    ELSE (CHOOSE m \in {d.id : d \in coll} : \A d \in coll : d.id <= m) + 1

\* what a repository method returns
NoneValue == [t |-> "none"]
DocValue(d) == IF d = NoDoc THEN NoneValue ELSE [t |-> "doc", doc |-> d]
ListValue(docs) == [t |-> "list", docs |-> docs]
BoolValue(b) == [t |-> "bool", b |-> b]

\* CanSerialize for a json.dumps that takes any value
CanSerializeAnything(v) == TRUE

\* json.dumps raises TypeError on the ObjectId every document has as _id: it
\* takes booleans and lists without documents
CanSerialize(v) ==
    \/ v.t = "bool"
    \/ v.t = "list" /\ v.docs = {}

\* serialize and deserialize: the JSON text of a value, and the value of a text
CacheSerialize(v) == <<"json", v>>
CacheDeserialize(text) == text[2]

\* the @cached wrapper for key, on cache c, Redis answering or not (up): v is
\* what the wrapped method returns and cmiss the cache after it ran
CachedCall(c, up, key, v, cmiss) ==
    IF ~cache_enabled THEN [result |-> v, cache |-> cmiss]
    ELSE IF up /\ key \in DOMAIN c
         THEN [result |-> CacheDeserialize(c[key]), cache |-> c]
         ELSE [result |-> v,
               cache |-> IF up /\ v.t # "none" /\ CanSerialize(v)
                         THEN (key :> CacheSerialize(v)) @@ cmiss
                         ELSE cmiss]

\* the @invalidate_cache wrapper: clear_cache_pattern(f"{prefix}*")
Invalidate(c, up, family) ==
    IF cache_enabled /\ up
    THEN [k \in {k \in DOMAIN c : k[1] # family} |-> c[k]]
    ELSE c

\* str(self) in the cache key: ProjectRepository defines __str__
ReprOf(kind, rp) == IF kind = "project" THEN "ProjectRepository" ELSE rp

\* get_project_by_id, get_service_by_id, get_log_by_id, get_cpu_entry_by_id
GetById(dbs, kind, c, up, rp, ref) ==
    CachedCall(c, up, <<kind, "by_id", ReprOf(kind, rp), ref>>,
               DocValue(FindOne(dbs[kind], ref)), c)

\* ServiceRepository.get_services_by_project
GetServicesByProject(dbs, c, up, rp, pref) ==
    CachedCall(c, up, <<"service", "by_project", rp, pref>>,
               ListValue({d \in dbs["service"] : d.project_id = pref}), c)

\* ServiceRepository.check_service_exists, which lists the project's services
\* before it looks for the one with the name
CheckServiceExists(dbs, c, up, rp, pref, name) ==
    CachedCall(c, up, <<"service", "exists", rp, <<pref, name>>>>,
               BoolValue(\E d \in dbs["service"] : d.project_id = pref /\ d.name = name),
               GetServicesByProject(dbs, c, up, rp, pref).cache)

\* ServiceService.get_services_by_project, as far as it touches the cache
ListMicroservices(dbs, c, up, rp, pref) ==
    GetServicesByProject(dbs, GetById(dbs, "project", c, up, rp, pref).cache,
                         up, rp, pref).cache

\* the response to a request
Respond(op, status) ==
    resp' = [NoResponse EXCEPT !.op = op, !.status = status]

\* a key's time to live is over
Expire ==
    /\ \E k \in DOMAIN cache :
          cache' = [j \in DOMAIN cache \ {k} |-> cache[j]]
    /\ UNCHANGED <<db, cache_enabled, resp, noid, creating, runvars, discvars, anvars, cachevars, routevars>>

\* POST /projects and POST /logs up to the await of find_all: create_project
\* and create_log take the largest "id" of the documents read, plus one
ReadMaxId(kind) ==
    /\ BagCardinality(creating) < MaxPending
    /\ noid + BagCardinality(creating) < MaxDocs
    /\ creating' = creating (+) SetToBag({<<kind, NextNumericId(db[kind])>>})
    /\ UNCHANGED <<db, cache, cache_enabled, resp, noid, runvars, discvars, anvars, cachevars, routevars>>

\* whether Redis answers during a request, and the address in str(self):
\* neither is looked at when the cache is disabled
RedisUp == IF cache_enabled THEN BOOLEAN ELSE {TRUE}

\* POST /projects from the insert on: BaseRepository.create, the
\* invalidation, then the microservices of the new project
CreateProject(id) ==
    /\ BagIn(<<"project", id>>, creating)
    /\ \E up \in RedisUp, rp \in Reprs :
          LET d   == [NoDoc EXCEPT !.oid = noid + 1, !.id = id]
              db1 == [db EXCEPT !["project"] = @ \cup {d}]
              c1  == Invalidate(cache, up, "project")
          IN  /\ db' = db1
              /\ cache' = ListMicroservices(db1, c1, up, rp, <<"oid", d.oid>>)
              /\ Respond("create", 201)
    /\ noid' = noid + 1
    /\ creating' = creating (-) SetToBag({<<"project", id>>})
    /\ UNCHANGED <<cache_enabled, runvars, discvars, anvars, cachevars, routevars>>

\* POST /logs from the insert on
CreateLog(id) ==
    /\ BagIn(<<"log", id>>, creating)
    /\ \E up \in RedisUp :
          LET d == [NoDoc EXCEPT !.oid = noid + 1, !.id = id]
          IN  /\ db' = [db EXCEPT !["log"] = @ \cup {d}]
              /\ cache' = Invalidate(cache, up, "log")
              /\ Respond("create", 201)
    /\ noid' = noid + 1
    /\ creating' = creating (-) SetToBag({<<"log", id>>})
    /\ UNCHANGED <<cache_enabled, runvars, discvars, anvars, cachevars, routevars>>

\* POST /services: ServiceService.create_service
CreateService(pref, name) ==
    /\ \E up \in RedisUp, rp \in Reprs :
          LET r == GetById(db, "project", cache, up, rp, pref)
              d == [NoDoc EXCEPT !.oid = noid + 1, !.project_id = pref, !.name = name]
              unknown == FindOne(db["project"], pref) = NoDoc
          IN  IF r.result.t = "none"
              THEN /\ cache' = r.cache
                   /\ resp' = [NoResponse EXCEPT !.op = "create_service", !.status = 404,
                                                 !.unknown_project = unknown,
                                                 !.stored = FALSE]
                   /\ UNCHANGED <<db, noid>>
              ELSE /\ noid < MaxDocs
                   /\ db' = [db EXCEPT !["service"] = @ \cup {d}]
                   /\ cache' = Invalidate(r.cache, up, "service")
                   /\ noid' = noid + 1
                   /\ resp' = [NoResponse EXCEPT !.op = "create_service", !.status = 201,
                                                 !.unknown_project = unknown,
                                                 !.stored = TRUE]
    /\ UNCHANGED <<cache_enabled, creating, runvars, discvars, anvars, cachevars, routevars>>

\* POST /metrics/cpu: MetricsService.create_cpu_entry
CreateCpuEntry(pref, name) ==
    /\ \E up \in RedisUp, rp \in Reprs :
          LET r1 == GetById(db, "project", cache, up, rp, pref)
              r2 == CheckServiceExists(db, r1.cache, up, rp, pref, name)
              d  == [NoDoc EXCEPT !.oid = noid + 1, !.project_id = pref, !.name = name]
          IN  IF r1.result.t = "none"
              THEN /\ cache' = r1.cache
                   /\ Respond("create", 404)
                   /\ UNCHANGED <<db, noid>>
              ELSE IF ~r2.result.b
              THEN /\ cache' = r2.cache
                   /\ Respond("create", 404)
                   /\ UNCHANGED <<db, noid>>
              ELSE /\ noid < MaxDocs
                   /\ db' = [db EXCEPT !["metrics"] = @ \cup {d}]
                   /\ cache' = r2.cache
                   /\ noid' = noid + 1
                   /\ Respond("create", 201)
    /\ UNCHANGED <<cache_enabled, creating, runvars, discvars, anvars, cachevars, routevars>>

\* GET /projects/{id}, /services/{id}, /logs/{id}, /metrics/cpu/{id}
GetEntity(kind, ref) ==
    /\ \E up \in RedisUp, rp \in Reprs :
          LET r == GetById(db, kind, cache, up, rp, ref)
              after == resp.target = <<kind, ref>>
          IN  IF r.result.t = "none"
              THEN /\ cache' = r.cache
                   /\ resp' = [NoResponse EXCEPT !.op = "get", !.status = 404,
                                                 !.after_delete = after]
              ELSE /\ cache' = IF kind = "project"
                                THEN ListMicroservices(db, r.cache, up, rp, ref)
                                ELSE r.cache
                   /\ resp' = [NoResponse EXCEPT !.op = "get", !.status = 200,
                                                 !.after_delete = after]
    /\ UNCHANGED <<db, cache_enabled, noid, creating, runvars, discvars, anvars, cachevars, routevars>>

\* DELETE of the same four: the service looks the document up, then the
\* repository deletes it; delete_cpu_entry alone invalidates nothing
DeleteEntity(kind, ref) ==
    /\ \E up \in RedisUp, rp \in Reprs :
          LET r     == GetById(db, kind, cache, up, rp, ref)
              coll1 == DeleteOne(db[kind], ref)
          IN  IF r.result.t = "none"
              THEN /\ cache' = r.cache
                   /\ db' = db
                   /\ Respond("delete", 404)
              ELSE /\ db' = [db EXCEPT ![kind] = coll1]
                   /\ cache' = IF kind = "metrics" THEN r.cache
                                ELSE Invalidate(r.cache, up, kind)
                   /\ IF coll1 # db[kind]
                      THEN resp' = [NoResponse EXCEPT !.op = "delete", !.status = 204,
                                                      !.target = <<kind, ref>>]
                      ELSE Respond("delete", 404)
    /\ UNCHANGED <<cache_enabled, noid, creating, runvars, discvars, anvars, cachevars, routevars>>

\* CACHE_ENABLED is read from the environment when the process starts
InitCrud ==
    /\ store = <<>>
    /\ reports = <<>>
    /\ cfiles = <<>>
    /\ sink = <<>>
    /\ clock = 0
    /\ tasks = [t \in Slots |-> IdleTask]
    /\ last = IdleTask
    /\ calls = 0
    /\ disc = IdleDisc
    /\ sfiles = <<>>
    /\ db = [k \in Kinds |-> {}]
    /\ cache = <<>>
    /\ cache_enabled \in BOOLEAN
    /\ resp = NoResponse
    /\ noid = 0
    /\ creating = EmptyBag
    /\ analyses = <<>>
    /\ reading = IdleRead
    /\ writing = IdleWrite
    /\ rfiles = <<>>

NextCrud ==
    \/ Expire
    \/ \E kind \in {"project", "log"} : ReadMaxId(kind)
    \/ \E id \in 1..MaxDocs : CreateProject(id)
    \/ \E id \in 1..MaxDocs : CreateLog(id)
    \/ \E pref \in ProjectRefs, name \in ServiceNames : CreateService(pref, name)
    \/ \E pref \in ProjectRefs, name \in ServiceNames : CreateCpuEntry(pref, name)
    \/ \E kind \in Kinds, ref \in IdRefs : GetEntity(kind, ref)
    \/ \E kind \in Kinds, ref \in IdRefs : DeleteEntity(kind, ref)

SpecCrud == InitCrud /\ [][NextCrud]_vars

----------------------------------------------------------------------------
(* Cached reads and invalidating writes that overlap *)

\* what get_services_by_project reads from the collection
FreshServices(dbs, pref) == ListValue({d \in dbs["service"] : d.project_id = pref})

\* @cached around get_services_by_project, up to the await of find_all: a key
\* that is there is returned at once, else the query is sent and answered.
\* The answer of a hit is stale when it differs from the collection while no
\* write is between its statement and its invalidation
CachedReadBegin(pref) ==
    /\ reading.pc = "idle"
    /\ \E rp \in Reprs :
          LET key   == <<"service", "by_project", rp, pref>>
              fresh == FreshServices(db, pref)
          IN  IF cache_enabled /\ key \in DOMAIN cache
              THEN /\ resp' = [NoResponse EXCEPT
                         !.op = "list_services", !.status = 200,
                         !.stale = /\ writing.pc = "idle"
                                   /\ CacheDeserialize(cache[key]) # fresh]
                   /\ reading' = reading
              ELSE /\ reading' = [pc |-> "fetched", key |-> key, value |-> fresh]
                   /\ resp' = resp
    /\ UNCHANGED <<db, cache, cache_enabled, noid, creating, writing>>
    /\ UNCHANGED <<runvars, discvars, anvars, routevars>>

\* @cached from the answer of the query on: set_cache of what was read, which
\* stores nothing when json.dumps raises, and the return
CachedReadEnd ==
    /\ reading.pc = "fetched"
    /\ cache' = IF cache_enabled /\ CanSerialize(reading.value)
                THEN (reading.key :> CacheSerialize(reading.value)) @@ cache
                ELSE cache
    /\ resp' = [NoResponse EXCEPT !.op = "list_services", !.status = 200]
    /\ reading' = IdleRead
    /\ UNCHANGED <<db, cache_enabled, noid, creating, writing>>
    /\ UNCHANGED <<runvars, discvars, anvars, routevars>>

\* @invalidate_cache around create_service, up to the await of insert_one
WriteInsert(pref, name) ==
    /\ writing.pc = "idle"
    /\ noid < MaxDocs
    /\ db' = [db EXCEPT !["service"] = @ \cup
                {[NoDoc EXCEPT !.oid = noid + 1, !.project_id = pref, !.name = name]}]
    /\ noid' = noid + 1
    /\ writing' = [pc |-> "written", op |-> "create_service"]
    /\ UNCHANGED <<cache, cache_enabled, resp, creating, reading>>
    /\ UNCHANGED <<runvars, discvars, anvars, routevars>>

\* @invalidate_cache around delete_service, up to the await of delete_one
WriteDelete(ref) ==
    /\ writing.pc = "idle"
    /\ db' = [db EXCEPT !["service"] = DeleteOne(@, ref)]
    /\ writing' = [pc |-> "written", op |-> "delete_service"]
    /\ UNCHANGED <<cache, cache_enabled, resp, noid, creating, reading>>
    /\ UNCHANGED <<runvars, discvars, anvars, routevars>>

\* @invalidate_cache after the call: clear_cache_pattern("services*"), return
WriteInvalidate ==
    /\ writing.pc = "written"
    /\ cache' = Invalidate(cache, TRUE, "service")
    /\ resp' = [NoResponse EXCEPT !.op = writing.op, !.status = 200]
    /\ writing' = IdleWrite
    /\ UNCHANGED <<db, cache_enabled, noid, creating, reading>>
    /\ UNCHANGED <<runvars, discvars, anvars, routevars>>

\* reads and writes of the services of a project, Redis answering
NextCache ==
    \/ Expire
    \/ \E pref \in ProjectRefs : CachedReadBegin(pref)
    \/ CachedReadEnd
    \/ \E pref \in ProjectRefs, name \in ServiceNames : WriteInsert(pref, name)
    \/ \E ref \in IdRefs : WriteDelete(ref)
    \/ WriteInvalidate

SpecCache == InitCrud /\ [][NextCache]_vars

----------------------------------------------------------------------------
(* Properties *)

\* the call that just completed was op, on a run it had loaded or created
Completed(op) == last.pc = "done" /\ last.op = op /\ last.run.id # NoRun

Persisted(r) == GetTestRun(store, r)

Counters(run) ==
    <<run.total_tests, run.passed_tests, run.failed_tests, run.error_tests,
      run.skipped_tests>>

\* C1: execute_test_run on a run that has a persisted record never raises and
\* returns a run whose status is passed, failed or error, whichever step raised.
C1_ExecuteNeverRaises ==
    Completed("execute_test_run") =>
        /\ last.outcome = "returned"
        /\ last.run.status \in Terminal

\* C2: once execute_test_run on an existing run is over (every external call
\* has returned or raised), the persisted record has a terminal status.
C2_ExecuteLeavesTerminalRecord ==
    Completed("execute_test_run") => Persisted(last.rid).status \in Terminal

\* C3: with a working log sink, the run execute_test_run returns and the record
\* it persisted are failed when the artifact's summary has failed > 0 or
\* error > 0, passed when both are 0, and error when the artifact is missing.
C3_StatusFromArtifact ==
    LET expected ==
            IF last.artifact = "missing" THEN "error"
            ELSE IF last.report.summary.failed > 0 \/ last.report.summary.error > 0
                 THEN "failed" ELSE "passed"
    IN  ( /\ Completed("execute_test_run")
          /\ ~last.logfail
          /\ \/ last.artifact = "missing"
             \/ last.artifact = "parsed" /\ last.report.summary # NoSummary )
        => /\ last.outcome = "returned"
           /\ last.run.status = expected
           /\ Persisted(last.rid).status = expected

\* C4: a persisted status only moves forward: a record that is passed, failed
\* or error keeps that status in every later write, and a record that is
\* running is never written back to pending.
C4_StatusOnlyMovesForward ==
    [][\A r \in DOMAIN store :
          /\ store[r].status \in Terminal => store'[r].status = store[r].status
          /\ store[r].status = "running" => store'[r].status # "pending"]_vars

\* C5: with a working log sink, run_service_tests never raises: it returns a
\* run whose status is passed, failed or error, and the persisted record of
\* that run is not left pending or running.
C5_RunServiceTestsNeverRaises ==
    (Completed("run_service_tests") /\ ~last.logfail) =>
        /\ last.outcome = "returned"
        /\ last.run.status \in Terminal
        /\ Persisted(last.rid).status \in Terminal

\* C6: when the runtime is available, the container runs the command, the
\* artifact can be copied and it parses with a summary, run_service_tests
\* returns and persists a run with the summary's counters, failed if
\* failed > 0 or error > 0 and passed otherwise.
C6_RunServiceTestsStatusFromArtifact ==
    LET sm == last.env.report.summary
        expected == IF sm.failed > 0 \/ sm.error > 0 THEN "failed" ELSE "passed"
        counters == <<sm.total, sm.passed, sm.failed, sm.error, sm.skipped>>
    IN  ( /\ Completed("run_service_tests")
          /\ ~last.logfail
          /\ last.avail = "yes"
          /\ last.env.exec = "ran"
          /\ last.env.copy = "ok"
          /\ last.env.report.json
          /\ sm # NoSummary )
        => /\ last.outcome = "returned"
           /\ last.run.status = expected
           /\ Counters(last.run) = counters
           /\ Persisted(last.rid).status = expected
           /\ Counters(Persisted(last.rid)) = counters

\* an error entry of run r that explains why the run did not execute
HasErrorEntry(r) ==
    \E i \in 1..Len(sink) :
        /\ sink[i].test_id = r
        /\ sink[i].severity = "error"
        /\ sink[i].kind \in {"docker_error", "execution_error"}

IsListing ==
    /\ last.pc = "done"
    /\ last.op \in {"get_test_runs_by_project", "get_test_runs_by_service"}

\* C8: get_test_runs_by_project and get_test_runs_by_service return the runs
\* newest first: start_time never increases along the returned list.
C8_ListingNewestFirst ==
    IsListing =>
        \A i, j \in 1..Len(last.listing) :
            i < j => last.listing[i].start_time >= last.listing[j].start_time

\* a listing of two runs of which the one created later comes first
C8_Witness ==
    /\ IsListing
    /\ Len(last.listing) = 2
    /\ last.listing[1].start_time > last.listing[2].start_time
    /\ last.listing[1].id > last.listing[2].id

\* the TestRunResult objects the coroutines hold
HeldRuns ==
    {tasks[t].run : t \in Slots} \cup {last.run} \cup UNION {
        {last.listing[i] : i \in 1..Len(last.listing)} }

\* C9: saving a run twice in a row leaves the store as it is after the first
\* save, and get_test_run on its id then returns the run that was saved.
C9_SaveIsIdempotentOverwrite ==
    \A run \in HeldRuns :
        run.id # NoRun =>
            LET once == SaveMetadata(store, run)
                twice == SaveMetadata(once, run)
            IN  /\ twice = once
                /\ GetTestRun(twice, run.id) = run

\* a coroutine holds a run with a fractional end time and two log ids while
\* the store has an older snapshot of it
C9_Witness ==
    \E t \in Slots :
        /\ tasks[t].run.id # NoRun
        /\ tasks[t].run.end_time # NoTime
        /\ tasks[t].run.end_time % TicksPerSec # 0
        /\ Len(tasks[t].run.log_ids) >= 2
        /\ Persisted(tasks[t].rid) # tasks[t].run

\* position of a kind of log entry in the order the run's narrative has
KindRank(kind) ==
    CASE kind = "start" -> 0
      [] kind \in {"stdout", "stderr"} -> 1
      [] kind = "case" -> 2
      [] kind = "completion" -> 3
      [] OTHER -> 2

\* C10: for a run that still has its run-started entry at the head of log_ids
\* and that execute_test_run processed from a parsed artifact, the log sink
\* working, log_ids lists the entries in creation order: the run-started entry
\* first, then the stdout/stderr entries, then the per-case entries in
\* artifact order, and the completion summary entry last.
C10_LogIdsInNarrativeOrder ==
    LET ids == last.run.log_ids
        n == Len(ids)
    IN  ( /\ Completed("execute_test_run")
          /\ ~last.logfail
          /\ last.artifact = "parsed"
          /\ n >= 1
          /\ sink[ids[1]].kind = "start" )
        => /\ \A i, j \in 1..n : i < j => ids[i] < ids[j]
           /\ \A i, j \in 1..n :
                i < j => KindRank(sink[ids[i]].kind) <= KindRank(sink[ids[j]].kind)
           /\ \A i, j \in 1..n :
                (i < j /\ sink[ids[i]].kind = "case" /\ sink[ids[j]].kind = "case")
                    => sink[ids[i]].detail[1] < sink[ids[j]].detail[1]
           /\ sink[ids[n]].kind = "completion"

\* the per-case entries the call of frame f created for its run
CaseEntryIds(f) ==
    {i \in (f.base + 1)..Len(sink) : sink[i].test_id = f.rid /\ sink[i].kind = "case"}

\* C11: for a run that has its run-started entry and that execute_test_run
\* processed from a well-formed artifact with N test cases, the log sink
\* working, the call created exactly N per-case entries, the k-th of them
\* describes the k-th case of the artifact, and log_ids has at least N + 2 ids.
C11_OneLogEntryPerCase ==
    LET cs == CaseEntryIds(last)
        N == Len(last.report.tests)
    IN  ( /\ Completed("execute_test_run")
          /\ ~last.logfail
          /\ last.artifact = "parsed"
          /\ last.report.summary # NoSummary
          /\ Len(last.run.log_ids) >= 1
          /\ sink[last.run.log_ids[1]].kind = "start" )
        => /\ Cardinality(cs) = N
           /\ \A i \in cs :
                LET k == Cardinality({j \in cs : j <= i})
                IN  k <= N /\ sink[i].detail = <<k, last.report.tests[k]>>
           /\ Len(last.run.log_ids) >= N + 2

\* p is a prefix of q
IsPrefix(p, q) == Len(p) <= Len(q) /\ SubSeq(q, 1, Len(p)) = p

\* C12: the persisted log_ids of a run is append-only: every write of a record
\* keeps the log_ids persisted before as a prefix of the new ones.
C12_LogIdsAppendOnly ==
    [][\A r \in DOMAIN store : IsPrefix(store[r].log_ids, store'[r].log_ids)]_vars

\* a call of create_test_run starts in slot t in this step
CreateBegins(t) ==
    /\ tasks[t].pc = "idle"
    /\ tasks'[t].op = "create_test_run"
    /\ tasks'[t].pc = "start_log"

\* a call of create_test_run returns in this step
CreateReturns ==
    /\ \E t \in Slots : tasks[t].op = "create_test_run" /\ tasks'[t].pc = "idle"
    /\ last'.outcome = "returned"

\* C13: create_test_run takes an id no persisted run has, and the run it
\* returns is pending, has start_time set, end_time unset, the five counters 0
\* and as log_ids exactly the id of the run-started entry it logged; the
\* persisted record of that id equals the returned run.
C13_CreateTestRunScaffold ==
    [][ /\ \A t \in Slots :
            CreateBegins(t) => tasks'[t].rid \notin DOMAIN store
        /\ CreateReturns =>
            LET run == last'.run IN
            /\ run.id = last'.rid
            /\ run.status = "pending"
            /\ run.start_time # NoTime
            /\ run.end_time = NoTime
            /\ Counters(run) = <<0, 0, 0, 0, 0>>
            /\ Len(run.log_ids) = 1
            /\ run.log_ids[1] = Len(sink')
            /\ Len(sink') = Len(sink) + 1
            /\ sink'[run.log_ids[1]].kind = "start"
            /\ sink'[run.log_ids[1]].test_id = run.id
            /\ GetTestRun(store', run.id) = run ]_vars

\* create_test_run has returned a second run, created after the clock moved
C13_Witness ==
    /\ Completed("create_test_run")
    /\ last.outcome = "returned"
    /\ last.rid = 2
    /\ last.run.start_time > 0
    /\ Len(sink) >= 2

\* a call of execute_test_run on an id with no persisted record ends in this step
ExecuteUnknownEnds ==
    /\ calls' = calls + 1
    /\ last'.pc = "done"
    /\ last'.op = "execute_test_run"
    /\ last'.rid \notin DOMAIN store

\* C14: execute_test_run on a run id that has no persisted record raises, and
\* leaves the run store, the report files and the log sink as they were: no
\* record is created, no log entry appended, no container call made.
C14_ExecuteUnknownRunNotFound ==
    [][ExecuteUnknownEnds =>
          /\ last'.outcome = "raised"
          /\ last'.execs = 0
          /\ last'.copies = 0
          /\ UNCHANGED <<store, sink, reports, cfiles>>]_vars

\* execute_test_run has raised for an unknown id while another run is
\* persisted with its log entry
C14_Witness ==
    /\ last.pc = "done"
    /\ last.op = "execute_test_run"
    /\ last.outcome = "raised"
    /\ last.rid \notin DOMAIN store
    /\ DOMAIN store # {}
    /\ Len(sink) >= 1

\* C15: every persisted record whose status is passed, failed or error has
\* end_time set and duration_seconds equal to end_time minus start_time.
C15_TerminalHasEndTime ==
    \A r \in DOMAIN store :
        LET run == Persisted(r) IN
        run.status \in Terminal =>
            /\ run.end_time # NoTime
            /\ run.duration_seconds = run.end_time - run.start_time

\* an error entry of run r created by the call of frame f
HasNewErrorEntry(f) ==
    \E i \in (f.base + 1)..Len(sink) :
        sink[i].test_id = f.rid /\ sink[i].severity = "error"

\* C16: when the artifact exists and parses as JSON but has no summary object,
\* the log sink working, execute_test_run ends the run in status error,
\* persisted as error, with an error log entry.
C16_MissingSummaryIsError ==
    ( /\ Completed("execute_test_run")
      /\ ~last.logfail
      /\ last.artifact = "parsed"
      /\ last.report.summary = NoSummary )
    => /\ last.run.status = "error"
       /\ Persisted(last.rid).status = "error"
       /\ HasNewErrorEntry(last)

\* a call of collect_service_tests is over and met a filesystem failure: the
\* tests directory was missing or the collect-only run ended with a non-zero
\* status
FilesystemFailure == disc.pc = "done" /\ (~disc.exists \/ disc.rc = "nonzero")

ExtraSegments(nodeid) == Tail(SplitOn(nodeid))

\* C18: the TestItem made from a node identifier has kind unknown and the
\* whole identifier as name when no segment follows the path; kind class (the
\* segment starts with "Test" and not with "test_") or function, and the
\* segment as name, when one segment follows; kind method, the first segment
\* as class name and the second as name, when two segments follow.
C18_NodeIdParsing ==
    disc.pc \in {"log_collected", "done"} =>
        \A i \in 1..disc.fs_tests :
            LET item == disc.tests[i]
                nodeid == disc.lines[i]
                extra == ExtraSegments(nodeid)
            IN  /\ Len(extra) = 0 => item.type = "unknown" /\ item.name = nodeid
                /\ Len(extra) = 1 =>
                      /\ item.name = extra[1]
                      /\ item.type =
                            IF StartsWith(extra[1], <<"T", "e", "s", "t">>)
                               /\ ~StartsWith(extra[1], <<"t", "e", "s", "t", "_">>)
                            THEN "class" ELSE "function"
                /\ Len(extra) = 2 =>
                      /\ item.type = "method"
                      /\ item.name = extra[2]
                      /\ "class_name" \in DOMAIN item
                      /\ item.class_name = extra[1]


\* every key in Redis belongs to a list of services or to a service check:
\* no document, of any collection, is ever stored there
NoDocumentCached ==
    \A k \in DOMAIN cache : k[2] \in {"by_project", "exists"}

\* C19: after a delete of a project, service, log or CPU-metrics entry
\* succeeds, the get of the same id that follows it answers 404, with the
\* cache enabled or disabled
C19_GetAfterDeleteNotFound ==
    (resp.op = "get" /\ resp.after_delete) => resp.status = 404

\* C20: create_service with a project_id that matches no project is answered
\* with 400 or 404 and stores no service document
C20_CreateServiceUnknownProject ==
    (resp.op = "create_service" /\ resp.unknown_project)
        => (resp.status \in {400, 404} /\ ~resp.stored)

\* a create_service is refused while another project exists and the cache is on
C20_Witness ==
    /\ resp.op = "create_service"
    /\ resp.unknown_project
    /\ resp.status = 404
    /\ cache_enabled
    /\ db["project"] # {}

\* a step of analyze_test_run or of get_analysis
AnalyzerStep ==
    \/ \E t \in Slots : /\ tasks'[t] # tasks[t]
                        /\ "analyze_test_run" \in {tasks[t].op, tasks'[t].op}
    \/ last'.op \in AnalysisOps /\ calls' = calls + 1

\* C21: analyze_test_run and get_analysis leave the persisted record of every
\* run in a terminal state as it was (status, times, counters, log_ids), and
\* leave the reports and the logs alone: the only thing they write is the
\* separate analysis record of the analysed run
C21_AnalysisLeavesRun ==
    [][AnalyzerStep =>
        /\ \A r \in DOMAIN store :
              GetTestRun(store, r).status \in Terminal
                  => r \in DOMAIN store' /\ store'[r] = store[r]
        /\ reports' = reports
        /\ sink' = sink
        /\ \A r \in DOMAIN analyses' :
              (r \notin DOMAIN analyses \/ analyses'[r] # analyses[r])
                  => (last'.op = "analyze_test_run" /\ last'.rid = r)]_vars

\* a run in a terminal state was analysed: its analysis record is saved and
\* its persisted record is the one the analysis started from
C21_Witness ==
    /\ last.pc = "done"
    /\ last.op = "analyze_test_run"
    /\ last.outcome = "returned"
    /\ last.run.status \in Terminal
    /\ last.rid \in DOMAIN analyses
    /\ analyses[last.rid] = last.analysis
    /\ Persisted(last.rid) = last.run

\* the severity the per-case entry is to carry, by outcome
ExpectedCaseSeverity(outcome) ==
    CASE outcome = "failed" -> "error"
      [] outcome = "skipped" -> "warning"
      [] OTHER -> "info"

\* C22: when execute_test_run has processed a parsed artifact, the log sink
\* working, every case k of the artifact has exactly one per-case entry, whose
\* severity is error for failed, warning for skipped and info otherwise, and
\* whose id is in the run's log_ids: no case stops the cases after it
C22_CaseEntrySeverity ==
    ( /\ Completed("execute_test_run")
      /\ ~last.logfail
      /\ last.artifact = "parsed" )
    => \A k \in 1..Len(last.report.tests) :
         LET es == {i \in CaseEntryIds(last) : sink[i].detail[1] = k}
         IN /\ Cardinality(es) = 1
            /\ \A i \in es :
                 /\ sink[i].severity = ExpectedCaseSeverity(last.report.tests[k])
                 /\ \E j \in 1..Len(last.run.log_ids) : last.run.log_ids[j] = i

\* the entries of the given kind that call f created for its run
CallEntryIds(f, kind) ==
    {i \in (f.base + 1)..Len(sink) : sink[i].test_id = f.rid /\ sink[i].kind = kind}

\* id is one of the run's log_ids
InLogIds(run, id) == \E j \in 1..Len(run.log_ids) : run.log_ids[j] = id

\* C23: when execute_test_run has run the test command in the container, the
\* log sink working, a stdout entry and a stderr entry of the run exist, the
\* stderr entry at warning severity if stderr was non-empty and at info
\* otherwise, and both ids are in log_ids, whether the copy of the artifact
\* succeeded or not
C23_OutputCaptured ==
    ( /\ Completed("execute_test_run")
      /\ ~last.logfail
      /\ last.copies > 0 )
    => /\ \E i \in CallEntryIds(last, "stdout") : InLogIds(last.run, i)
       /\ \E j \in CallEntryIds(last, "stderr") :
            /\ InLogIds(last.run, j)
            /\ sink[j].severity \in {"warning", "info"}
            /\ last.stderr => sink[j].severity = "warning"

\* C24: when execute_test_run or run_service_tests returns, every entry of the
\* log sink whose test_id is the run's id has its id in the persisted log_ids
\* of the run, on every path
C24_EveryEntryInLogIds ==
    ( /\ last.pc = "done"
      /\ last.op \in {"execute_test_run", "run_service_tests"}
      /\ last.outcome = "returned"
      /\ HasRun(store, last.run.id) )
    => \A i \in 1..Len(sink) :
         sink[i].test_id = last.run.id => InLogIds(Persisted(last.run.id), i)

\* C28: the run that create_test_run, execute_test_run or run_service_tests
\* returns equals the record persisted for its id at the moment of return
\* (status, times, counters, log_ids and every other field), no other task
\* writing that run during the call
C28_ReturnedEqualsPersisted ==
    ( /\ last.pc = "done"
      /\ last.op \in {"create_test_run", "execute_test_run", "run_service_tests"}
      /\ last.outcome = "returned" )
    => /\ HasRun(store, last.run.id)
       /\ Persisted(last.run.id) = last.run

\* execute_test_run returned from its exception handler after the copy, with
\* the handler's entry as the last of the log_ids returned and persisted
C28_Witness ==
    /\ last.pc = "done"
    /\ last.op = "execute_test_run"
    /\ last.outcome = "returned"
    /\ HasRun(store, last.run.id)
    /\ Persisted(last.run.id) = last.run
    /\ last.copies > 0
    /\ last.run.status = "error"
    /\ last.run.end_time # NoTime
    /\ Len(last.run.log_ids) >= 2
    /\ sink[last.run.log_ids[Len(last.run.log_ids)]].kind = "execution_error"

\* C29: the numeric id that create_project and create_log assign is unique
\* among the stored documents of the collection, after any creates and deletes
\* and when two creations overlap between reading the ids and inserting
C29_NumericIdUnique ==
    \A kind \in {"project", "log"} :
        \A d, e \in db[kind] : d.id = e.id => d = e

\* C30: with the cache enabled, a read of the services of a project that
\* starts when every invalidating write has completed never returns what the
\* collection held before such a write, however the reads and the writes
\* before it overlapped
C30_NoStaleRead ==
    (cache_enabled /\ resp.op = "list_services") => ~resp.stale

\* C25: the run store has no per-run serialisation: every write of a record
\* replaces the persisted log_ids by those of the writing task's own copy,
\* loaded when its call started, whatever another task persisted since
C25_SaveOverwrites ==
    [][\A r \in DOMAIN store :
          store'[r] # store[r] =>
             \/ \E t \in Slots : /\ tasks'[t] # tasks[t]
                                 /\ tasks'[t].rid = r
                                 /\ store'[r].log_ids = tasks'[t].run.log_ids
             \/ /\ last' # last
                /\ last'.rid = r
                /\ store'[r].log_ids = last'.run.log_ids]_vars

\* a lost update: an execute_test_run returned its run with a log id it had
\* appended and persisted, and the save of another execute_test_run in flight
\* on the same run id has since removed that id from the persisted record
C25_Witness ==
    /\ last.pc = "done"
    /\ last.op = "execute_test_run"
    /\ last.outcome = "returned"
    /\ \E t \in Slots :
          /\ tasks[t].op = "execute_test_run"
          /\ tasks[t].rid = last.rid
    /\ \E j \in 1..Len(last.run.log_ids) :
          /\ last.run.log_ids[j] > last.base
          /\ ~InLogIds(Persisted(last.rid), last.run.log_ids[j])

\* C27: execute_test_run calls for different run ids on the same container
\* never read each other's artifact: a report file in the container is written
\* only at the path of the writing call's own run id, and the report.json of
\* a run directory is only ever a copy of the file at the path of that run id
C27_OwnArtifactOnly ==
    [][/\ \A key \in DOMAIN cfiles' :
            (key \notin DOMAIN cfiles \/ cfiles'[key] # cfiles[key])
                => \E t \in Slots : /\ tasks[t].pc = "exec"
                                    /\ key = <<tasks[t].run.service_id, tasks[t].rid>>
       /\ \A r \in DOMAIN reports' :
            (r \notin DOMAIN reports \/ reports'[r] # reports[r])
                => \E t \in Slots :
                      /\ tasks[t].pc = "copy"
                      /\ tasks[t].rid = r
                      /\ <<tasks[t].run.service_id, r>> \in DOMAIN cfiles
                      /\ reports'[r] = cfiles[<<tasks[t].run.service_id, r>>]]_vars

\* two execute_test_run calls for different runs of one container overlapped:
\* one has returned with the counters of its own parsed report while the
\* other, past its test command, left a different report in the container
C27_Witness ==
    /\ last.pc = "done"
    /\ last.op = "execute_test_run"
    /\ last.artifact = "parsed"
    /\ Len(last.report.tests) > 0
    /\ reports[last.rid] = last.report
    /\ \E t \in Slots :
          /\ tasks[t].op = "execute_test_run"
          /\ tasks[t].rid # last.rid
          /\ tasks[t].run.service_id = last.run.service_id
          /\ tasks[t].copies > 0
          /\ ReportFile(tasks[t].run) \in DOMAIN cfiles
          /\ cfiles[ReportFile(tasks[t].run)] # last.report

\* a request to run the tests returns in this step from slot t, its own test
\* command having run without writing a report and the copy not having raised
OwnReportMissing(t) ==
    /\ tasks[t].pc = "route_project"
    /\ tasks'[t].pc = "idle"
    /\ last'.op = "run_tests_route"
    /\ last'.execs = 1
    /\ last'.env.report = NoReport
    /\ last'.env.copy = "ok"

====
